---- MODULE Spec2Model ----
(***************************************************************************)
(* svid-exchange: the token exchange pipeline.                             *)
(*                                                                         *)
(*   internal/spiffe/verifier.go   ExtractID, extractFromTLSState          *)
(*   internal/policy (part_002)    LoadFile, Loader.Evaluate, intersect    *)
(*   internal/token/minter.go      Minter.Mint                             *)
(*   internal/audit/logger.go      Logger.LogExchange                      *)
(*   internal/server/server.go     TokenExchangeServer.Exchange            *)
(*                                                                         *)
(* Every gRPC request runs Exchange on a goroutine of its own; a handler   *)
(* h of the model is one such invocation and pc[h] is its position in the  *)
(* body of Exchange.  The loaded policy and the signing key are built once *)
(* in main() and only read afterwards.                                     *)
(***************************************************************************)
EXTENDS Integers, Sequences, FiniteSets, TLC

\* ---------------------------------------------------------------- bounds
NumHandlers == 2      \* Exchange invocations of one run
MaxScopes   == 2      \* length of a request's scope list
MaxRules    == 2      \* rules in the policy file
MaxNow      == 1      \* wall clock, seconds
MaxJti      == 2      \* size of the token id space drawn from
MaxCerts    == 2      \* certificates of a peer's chain
MaxURIs     == 2      \* URI SANs of a certificate

\* ------------------------------------------------------------- constants
spiffeScheme == "spiffe"
issuer       == "svid-exchange"
maxTTLCap    == 3600

Handlers == 1 .. NumHandlers

\* --------------------------------------------------------------- helpers
Contains(s, v) == \E i \in 1 .. Len(s) : s[i] = v

SeqsUpTo(S, n) == UNION { [1 .. k -> S] : k \in 0 .. n }

\* ------------------------------------------------- internal/spiffe (verifier.go)
\* net/url: URL.String() of a hierarchical URI with a path.
URIString(u) == u.Scheme \o "://" \o u.Host \o u.Path

ErrNoPeerInfo == "no peer info in context"
ErrNoTLSInfo  == "peer has no TLS auth info"
ErrNoCerts    == "peer presented no certificates"
ErrNoSPIFFEID == "peer certificate contains no SPIFFE SAN URI"
NoErr         == "nil"

validateSPIFFEID(u) ==
    IF u.Host = "" THEN "missing trust domain" ELSE NoErr

\* The loop of extractFromTLSState going on to the next URI when a spiffe URI
\* has no trust domain.
RECURSIVE scanURIs_FallThrough(_, _)
scanURIs_FallThrough(uris, i) ==
    IF i > Len(uris)
    THEN [id |-> "", err |-> ErrNoSPIFFEID]
    ELSE IF uris[i].Scheme = spiffeScheme /\ validateSPIFFEID(uris[i]) = NoErr
         THEN [id |-> URIString(uris[i]), err |-> NoErr]
         ELSE scanURIs_FallThrough(uris, i + 1)

RECURSIVE scanURIs(_, _)
scanURIs(uris, i) ==
    IF i > Len(uris)
    THEN [id |-> "", err |-> ErrNoSPIFFEID]
    ELSE IF uris[i].Scheme = spiffeScheme
         THEN IF validateSPIFFEID(uris[i]) # NoErr
              THEN [id  |-> "",
                    err |-> "invalid SPIFFE ID \"" \o URIString(uris[i])
                             \o "\": " \o validateSPIFFEID(uris[i])]
              ELSE [id |-> URIString(uris[i]), err |-> NoErr]
         ELSE scanURIs(uris, i + 1)

extractFromTLSState(state) ==
    IF Len(state.PeerCertificates) = 0
    THEN [id |-> "", err |-> ErrNoCerts]
    ELSE scanURIs(state.PeerCertificates[1].URIs, 1)

\* ExtractID returning ErrNoPeerInfo for a peer without TLS auth info too.
ExtractID_SameError(ctx) ==
    IF ~ctx.HasPeer
    THEN [id |-> "", err |-> ErrNoPeerInfo]
    ELSE IF ctx.AuthInfo # "TLSInfo"
         THEN [id |-> "", err |-> ErrNoPeerInfo]
         ELSE extractFromTLSState(ctx.State)

\* ctx.HasPeer: peer.FromContext succeeds; ctx.AuthInfo: the dynamic type of
\* p.AuthInfo ("TLSInfo" or anything else).
ExtractID(ctx) ==
    IF ~ctx.HasPeer
    THEN [id |-> "", err |-> ErrNoPeerInfo]
    ELSE IF ctx.AuthInfo # "TLSInfo"
         THEN [id |-> "", err |-> ErrNoTLSInfo]
         ELSE extractFromTLSState(ctx.State)

\* ------------------------------------------------- internal/policy (part_002)
\* EvalResult{Allowed: false}: the zero values of the other fields.
Denied == [Allowed |-> FALSE, GrantedScopes |-> <<>>, GrantedTTL |-> 0]

\* intersect iterating b instead of a: the result follows the order of b.
intersect_OrderOfRule(a, b) == SelectSeq(b, LAMBDA v : Contains(a, v))

\* intersect returns the elements of a that are in b, in the order of a.
intersect(a, b) == SelectSeq(a, LAMBDA v : Contains(b, v))

\* Evaluate denying a request unless every requested scope is allowed.
EvaluateRule_AllOrNothing(p, scopes, ttlSeconds) ==
    LET granted == intersect(scopes, p.AllowedScopes)
    IN  IF Len(granted) = 0 \/ Len(granted) # Len(scopes)
        THEN Denied
        ELSE [Allowed       |-> TRUE,
              GrantedScopes |-> granted,
              GrantedTTL    |-> IF ttlSeconds <= 0 \/ ttlSeconds > p.MaxTTL
                                THEN p.MaxTTL
                                ELSE ttlSeconds]

\* Evaluate with < 0 for <= 0 in the TTL test: a TTL of 0 is kept.
EvaluateRule_ZeroKept(p, scopes, ttlSeconds) ==
    LET granted == intersect(scopes, p.AllowedScopes)
    IN  IF Len(granted) = 0
        THEN Denied
        ELSE [Allowed       |-> TRUE,
              GrantedScopes |-> granted,
              GrantedTTL    |-> IF ttlSeconds < 0 \/ ttlSeconds > p.MaxTTL
                                THEN p.MaxTTL
                                ELSE ttlSeconds]

\* The body of the loop of Evaluate for a rule p whose subject and target match.
EvaluateRule(p, scopes, ttlSeconds) ==
    LET granted == intersect(scopes, p.AllowedScopes)
    IN  IF Len(granted) = 0
        THEN Denied
        ELSE [Allowed       |-> TRUE,
              GrantedScopes |-> granted,
              GrantedTTL    |-> IF ttlSeconds <= 0 \/ ttlSeconds > p.MaxTTL
                                THEN p.MaxTTL
                                ELSE ttlSeconds]

\* Evaluate with && for || in the test that skips a rule: a rule that matches
\* on the subject alone is applied.
RECURSIVE EvaluateFrom_SubjectOnly(_, _, _, _, _, _)
EvaluateFrom_SubjectOnly(rules, i, subject, target, scopes, ttlSeconds) ==
    IF i > Len(rules)
    THEN Denied
    ELSE IF rules[i].Subject # subject /\ rules[i].Target # target
         THEN EvaluateFrom_SubjectOnly(rules, i + 1, subject, target, scopes, ttlSeconds)
         ELSE EvaluateRule(rules[i], scopes, ttlSeconds)

\* Evaluate going on to the next rule when a matching rule grants no scope.
RECURSIVE EvaluateFrom_FallThrough(_, _, _, _, _, _)
EvaluateFrom_FallThrough(rules, i, subject, target, scopes, ttlSeconds) ==
    IF i > Len(rules)
    THEN Denied
    ELSE IF \/ rules[i].Subject # subject \/ rules[i].Target # target
            \/ ~EvaluateRule(rules[i], scopes, ttlSeconds).Allowed
         THEN EvaluateFrom_FallThrough(rules, i + 1, subject, target, scopes, ttlSeconds)
         ELSE EvaluateRule(rules[i], scopes, ttlSeconds)

\* Evaluate reading a rule subject that ends in "*" as a pattern.
RECURSIVE EvaluateFrom_Wildcard(_, _, _, _, _, _)
EvaluateFrom_Wildcard(rules, i, subject, target, scopes, ttlSeconds) ==
    IF i > Len(rules)
    THEN Denied
    ELSE IF \/ (rules[i].Subject # subject /\ rules[i].Subject # "spiffe://td/*")
            \/ rules[i].Target # target
         THEN EvaluateFrom_Wildcard(rules, i + 1, subject, target, scopes, ttlSeconds)
         ELSE EvaluateRule(rules[i], scopes, ttlSeconds)

RECURSIVE EvaluateFrom(_, _, _, _, _, _)
EvaluateFrom(rules, i, subject, target, scopes, ttlSeconds) ==
    IF i > Len(rules)
    THEN Denied
    ELSE IF rules[i].Subject # subject \/ rules[i].Target # target
         THEN EvaluateFrom(rules, i + 1, subject, target, scopes, ttlSeconds)
         ELSE EvaluateRule(rules[i], scopes, ttlSeconds)

\* Loader.Evaluate over l.policies = rules.
Evaluate(rules, subject, target, scopes, ttlSeconds) ==
    EvaluateFrom(rules, 1, subject, target, scopes, ttlSeconds)

\* ------------------------------------------------- internal/token (minter.go)
\* A time.Time is a second count and a nanosecond part; Add of whole seconds
\* keeps the nanoseconds and Unix() drops them.
TimeAdd(t, seconds) == [sec |-> t.sec + seconds, nsec |-> t.nsec]

Unix(t) == t.sec

\* strings.Join(scopes, " ")
RECURSIVE JoinFrom(_, _)
JoinFrom(scopes, i) ==
    IF i > Len(scopes) THEN ""
    ELSE IF i = Len(scopes) THEN scopes[i]
         ELSE scopes[i] \o " " \o JoinFrom(scopes, i + 1)

Join(scopes) == JoinFrom(scopes, 1)

\* jwt ES256: SignedString fails unless the key is on the P-256 curve.
SignOK(key) == key = "P-256"

\* Mint without the upper half of the TTL test: a TTL above the cap is kept.
Mint_NoCeiling(key, subject, target, scopes, ttlSeconds, jti, now) ==
    LET ttl    == IF ttlSeconds <= 0 THEN maxTTLCap ELSE ttlSeconds
        exp    == TimeAdd(now, ttl)
        claims == [iss   |-> issuer,
                   sub   |-> subject,
                   aud   |-> <<target>>,
                   scope |-> Join(scopes),
                   iat   |-> Unix(now),
                   exp   |-> Unix(exp),
                   jti   |-> jti]
    IN  IF ~SignOK(key)
        THEN [ok |-> FALSE, err |-> "sign token: key is of invalid type"]
        ELSE [ok            |-> TRUE,
              Token         |-> [claims |-> claims, signedBy |-> key],
              TokenID       |-> jti,
              ExpiresAt     |-> exp,
              GrantedScopes |-> scopes]

\* Mint leaving the jti claim of the token empty.
Mint_NoJtiClaim(key, subject, target, scopes, ttlSeconds, jti, now) ==
    LET ttl    == IF ttlSeconds <= 0 \/ ttlSeconds > maxTTLCap
                  THEN maxTTLCap ELSE ttlSeconds
        exp    == TimeAdd(now, ttl)
        claims == [iss   |-> issuer,
                   sub   |-> subject,
                   aud   |-> <<target>>,
                   scope |-> Join(scopes),
                   iat   |-> Unix(now),
                   exp   |-> Unix(exp),
                   jti   |-> ""]
    IN  IF ~SignOK(key)
        THEN [ok |-> FALSE, err |-> "sign token: key is of invalid type"]
        ELSE [ok            |-> TRUE,
              Token         |-> [claims |-> claims, signedBy |-> key],
              TokenID       |-> jti,
              ExpiresAt     |-> exp,
              GrantedScopes |-> scopes]

\* Minter.Mint; jti is the value of uuid.New() and now that of time.Now().UTC().
Mint(key, subject, target, scopes, ttlSeconds, jti, now) ==
    LET ttl    == IF ttlSeconds <= 0 \/ ttlSeconds > maxTTLCap
                  THEN maxTTLCap ELSE ttlSeconds
        exp    == TimeAdd(now, ttl)
        claims == [iss   |-> issuer,
                   sub   |-> subject,
                   aud   |-> <<target>>,
                   scope |-> Join(scopes),
                   iat   |-> Unix(now),
                   exp   |-> Unix(exp),
                   jti   |-> jti]
    IN  IF ~SignOK(key)
        THEN [ok |-> FALSE, err |-> "sign token: key is of invalid type"]
        ELSE [ok            |-> TRUE,
              Token         |-> [claims |-> claims, signedBy |-> key],
              TokenID       |-> jti,
              ExpiresAt     |-> exp,
              GrantedScopes |-> scopes]

\* Minter.PublicKey: the public half of the signing key.
PublicKey(k) == [public |-> k]

\* encoding/json reads a number of the payload as a float64, which holds
\* every integer of the model exactly.
JSONNumber(n) == n

\* parseClaims of the minter tests: jwt.Parse with the key function returning
\* pub, then the claims of the token as a jwt.MapClaims.  aud is what
\* GetAudience returns for the decoded array.
ParseClaims(pub, token) ==
    IF pub # [public |-> token.signedBy]
    THEN [ok |-> FALSE, err |-> "parse token: signature is invalid"]
    ELSE [ok     |-> TRUE,
          claims |-> [iss   |-> token.claims.iss,
                      sub   |-> token.claims.sub,
                      aud   |-> [i \in 1 .. Len(token.claims.aud) |-> token.claims.aud[i]],
                      scope |-> token.claims.scope,
                      iat   |-> JSONNumber(token.claims.iat),
                      exp   |-> JSONNumber(token.claims.exp),
                      jti   |-> token.claims.jti]]

\* ------------------------------------------------- internal/audit (logger.go)
\* LogExchange writing every field of the event, whatever Granted is.
LogExchange_AllFields(e) ==
    [event            |-> "token.exchange",
     subject          |-> e.Subject,
     target           |-> e.Target,
     scopes_requested |-> e.ScopesRequested,
     granted          |-> e.Granted,
     scopes_granted   |-> e.ScopesGranted,
     ttl              |-> e.TTL,
     token_id         |-> e.TokenID,
     denial_reason    |-> e.DenialReason]

\* The JSON object LogExchange sends: a function from field names to values.
\* The "level" and "time" fields zerolog adds to every line are left out.
LogExchange(e) ==
    LET base == [event            |-> "token.exchange",
                 subject          |-> e.Subject,
                 target           |-> e.Target,
                 scopes_requested |-> e.ScopesRequested,
                 granted          |-> e.Granted]
    IN  IF e.Granted
        THEN base @@ [scopes_granted |-> e.ScopesGranted,
                      ttl            |-> e.TTL,
                      token_id       |-> e.TokenID]
        ELSE base @@ [denial_reason |-> e.DenialReason]

\* ExchangeEvent{...}: fields a literal leaves out hold their zero values.
ZeroEvent == [Subject |-> "", Target |-> "", ScopesRequested |-> <<>>,
              ScopesGranted |-> <<>>, Granted |-> FALSE, TTL |-> 0,
              TokenID |-> "", DenialReason |-> ""]

\* ------------------------------------------------------------ input sets
uriOrder  == [Scheme |-> "spiffe", Host |-> "td", Path |-> "/order"]
uriWh     == [Scheme |-> "spiffe", Host |-> "td", Path |-> "/wh"]
uriNoHost == [Scheme |-> "spiffe", Host |-> "",   Path |-> "/order"]
uriHttps  == [Scheme |-> "https",  Host |-> "td", Path |-> "/order"]

idOrder == "spiffe://td/order"
idWh    == "spiffe://td/wh"

TLSCtx(certs) ==
    [HasPeer |-> TRUE, AuthInfo |-> "TLSInfo", State |-> [PeerCertificates |-> certs]]

ctxNoPeer == [HasPeer |-> FALSE, AuthInfo |-> "none", State |-> [PeerCertificates |-> <<>>]]

\* The sessions requests of the pipeline arrive on.
ExchangeContexts ==
    { ctxNoPeer,
      TLSCtx(<< [URIs |-> <<uriNoHost, uriOrder>>] >>),
      TLSCtx(<< [URIs |-> <<uriOrder>>] >>),
      TLSCtx(<< [URIs |-> <<uriHttps, uriWh>>] >>) }

Targets == { "", "pay", "inv" }

ScopeNames == { "a", "b", "x" }

TTLValues == { -1, 0, 30, 4000 }

\* An ExchangeRequest together with the context it arrives with.
Requests ==
    [Ctx : ExchangeContexts, TargetService : Targets,
     Scopes : SeqsUpTo(ScopeNames, MaxScopes), TtlSeconds : TTLValues]

\* A Policy of the YAML file; Name is dropped, no code reads it.  max_ttl is
\* any int32 the file holds, 0 when the key is absent.
Rules ==
    [Subject : { idOrder }, Target : { "pay" },
     AllowedScopes : { <<"a">>, <<"b", "a">> }, MaxTTL : { 0, 60, 7200 }]

Keys == { "P-256", "P-384" }

Times == [sec : 0 .. MaxNow, nsec : { 0, 999999999 }]

TokenIDs == { "jti-" \o ToString(i) : i \in 1 .. MaxJti }

\* ----------------------------------------------------------------- state
VARIABLES
    policies,   \* Loader.policies, in load order
    key,        \* Minter.key
    auditLog,   \* the records written by the audit logger, in order
    pc,         \* pc[h]: position of handler h in Exchange
    req,        \* req[h]: ctx and req of the invocation
    subjectID,  \* local subjectID
    result,     \* local result, <<>> before Evaluate returned
    minted,     \* local minted, <<>> before Mint returned
    resp,       \* what Exchange returned: status code, message, response
    calls,      \* calls[h]: the collaborator calls of the invocation, in order
    fn          \* the last direct call of a package function

vars == <<policies, key, auditLog, pc, req, subjectID, result, minted, resp, calls, fn>>

NoRequest == [Ctx |-> ctxNoPeer, TargetService |-> "", Scopes |-> <<>>, TtlSeconds |-> 0]

NoResponse == [code |-> "none", msg |-> "", body |-> <<>>]

NoCall == [op |-> "none"]

HandlerInit ==
    /\ auditLog  = <<>>
    /\ pc        = [h \in Handlers |-> "idle"]
    /\ req       = [h \in Handlers |-> NoRequest]
    /\ subjectID = [h \in Handlers |-> ""]
    /\ result    = [h \in Handlers |-> <<>>]
    /\ minted    = [h \in Handlers |-> <<>>]
    /\ resp      = [h \in Handlers |-> NoResponse]
    /\ calls     = [h \in Handlers |-> <<>>]
    /\ fn        = NoCall

\* main(): LoadFile, NewMinter, server.New.
Init ==
    /\ policies \in SeqsUpTo(Rules, MaxRules)
    /\ key \in Keys
    /\ HandlerInit

\* ---------------------------------------- internal/server (server.go) Exchange
Call(op, args) == [op |-> op, args |-> args]

\* return nil, status.Error(code, msg)
ReturnError(h, code, msg) ==
    /\ resp' = [resp EXCEPT ![h] = [code |-> code, msg |-> msg, body |-> <<>>]]
    /\ pc'   = [pc EXCEPT ![h] = "done"]

\* The gRPC server starts Exchange for a request; handlers are numbered in the
\* order their requests arrive.
Receive(h, r) ==
    /\ pc[h] = "idle"
    /\ \A g \in Handlers : g < h => pc[g] # "idle"
    /\ req' = [req EXCEPT ![h] = r]
    /\ pc'  = [pc EXCEPT ![h] = "extract"]
    /\ UNCHANGED <<policies, key, auditLog, subjectID, result, minted, resp, calls, fn>>

\* Exchange checking the request body before it extracts the identity.
ExtractStep_BodyFirst(h) ==
    /\ pc[h] = "extract"
    /\ IF req[h].TargetService = ""
       THEN /\ ReturnError(h, "InvalidArgument", "target_service is required")
            /\ UNCHANGED <<subjectID, calls>>
       ELSE LET r == ExtractID(req[h].Ctx)
            IN  /\ calls' = [calls EXCEPT ![h] = Append(@, Call("ExtractID", <<req[h].Ctx>>))]
                /\ IF r.err # NoErr
                   THEN /\ ReturnError(h, "Unauthenticated", "extract SPIFFE ID: " \o r.err)
                        /\ UNCHANGED subjectID
                   ELSE /\ subjectID' = [subjectID EXCEPT ![h] = r.id]
                        /\ pc' = [pc EXCEPT ![h] = "validate"]
                        /\ UNCHANGED resp
    /\ UNCHANGED <<policies, key, auditLog, req, result, minted, fn>>

\* Exchange keeping the subject in a field all invocations share.
ExtractStep_SharedSubject(h) ==
    /\ pc[h] = "extract"
    /\ LET r == ExtractID(req[h].Ctx)
       IN  /\ calls' = [calls EXCEPT ![h] = Append(@, Call("ExtractID", <<req[h].Ctx>>))]
           /\ IF r.err # NoErr
              THEN /\ ReturnError(h, "Unauthenticated", "extract SPIFFE ID: " \o r.err)
                   /\ UNCHANGED subjectID
              ELSE /\ subjectID' = [g \in Handlers |-> r.id]
                   /\ pc' = [pc EXCEPT ![h] = "validate"]
                   /\ UNCHANGED resp
    /\ UNCHANGED <<policies, key, auditLog, req, result, minted, fn>>

\* server.go:59-62
ExtractStep(h) ==
    /\ pc[h] = "extract"
    /\ LET r == ExtractID(req[h].Ctx)
       IN  /\ calls' = [calls EXCEPT ![h] = Append(@, Call("ExtractID", <<req[h].Ctx>>))]
           /\ IF r.err # NoErr
              THEN /\ ReturnError(h, "Unauthenticated", "extract SPIFFE ID: " \o r.err)
                   /\ UNCHANGED subjectID
              ELSE /\ subjectID' = [subjectID EXCEPT ![h] = r.id]
                   /\ pc' = [pc EXCEPT ![h] = "validate"]
                   /\ UNCHANGED resp
    /\ UNCHANGED <<policies, key, auditLog, req, result, minted, fn>>

\* Exchange without the check of len(req.Scopes).
ValidateStep_NoScopeCheck(h) ==
    /\ pc[h] = "validate"
    /\ IF req[h].TargetService = ""
       THEN ReturnError(h, "InvalidArgument", "target_service is required")
       ELSE /\ pc' = [pc EXCEPT ![h] = "evaluate"]
            /\ UNCHANGED resp
    /\ UNCHANGED <<policies, key, auditLog, req, subjectID, result, minted, calls, fn>>

\* Exchange auditing a rejected request body as a denial.
ValidateStep_Audited(h) ==
    LET e == [ZeroEvent EXCEPT !.Subject = subjectID[h],
                               !.Target = req[h].TargetService,
                               !.ScopesRequested = req[h].Scopes,
                               !.DenialReason = "invalid request"]
    IN  /\ pc[h] = "validate"
        /\ IF req[h].TargetService = "" \/ Len(req[h].Scopes) = 0
           THEN /\ auditLog' = Append(auditLog, LogExchange(e))
                /\ calls' = [calls EXCEPT ![h] = Append(@, Call("LogExchange", <<e>>))]
                /\ ReturnError(h, "InvalidArgument",
                               IF req[h].TargetService = ""
                               THEN "target_service is required"
                               ELSE "at least one scope is required")
           ELSE /\ pc' = [pc EXCEPT ![h] = "evaluate"]
                /\ UNCHANGED <<resp, auditLog, calls>>
        /\ UNCHANGED <<policies, key, req, subjectID, result, minted, fn>>

\* server.go:64-69
ValidateStep(h) ==
    /\ pc[h] = "validate"
    /\ IF req[h].TargetService = ""
       THEN ReturnError(h, "InvalidArgument", "target_service is required")
       ELSE IF Len(req[h].Scopes) = 0
            THEN ReturnError(h, "InvalidArgument", "at least one scope is required")
            ELSE /\ pc' = [pc EXCEPT ![h] = "evaluate"]
                 /\ UNCHANGED resp
    /\ UNCHANGED <<policies, key, auditLog, req, subjectID, result, minted, calls, fn>>

\* Exchange without the test of result.Allowed.
EvaluateStep_NoAllowedCheck(h) ==
    /\ pc[h] = "evaluate"
    /\ LET res == Evaluate(policies, subjectID[h], req[h].TargetService,
                           req[h].Scopes, req[h].TtlSeconds)
       IN  /\ result' = [result EXCEPT ![h] = <<res>>]
           /\ calls'  = [calls EXCEPT ![h] = Append(@,
                            Call("Evaluate", <<subjectID[h], req[h].TargetService,
                                               req[h].Scopes, req[h].TtlSeconds>>))]
           /\ pc' = [pc EXCEPT ![h] = "mint"]
    /\ UNCHANGED <<policies, key, auditLog, req, subjectID, minted, resp, fn>>

\* Exchange taking the subject of the evaluation from the request body.
EvaluateStep_SubjectFromBody(h) ==
    /\ pc[h] = "evaluate"
    /\ LET res == Evaluate(policies, req[h].TargetService, req[h].TargetService,
                           req[h].Scopes, req[h].TtlSeconds)
       IN  /\ result' = [result EXCEPT ![h] = <<res>>]
           /\ calls'  = [calls EXCEPT ![h] = Append(@,
                            Call("Evaluate", <<req[h].TargetService, req[h].TargetService,
                                               req[h].Scopes, req[h].TtlSeconds>>))]
           /\ pc' = [pc EXCEPT ![h] = IF ~res.Allowed THEN "auditDenied" ELSE "mint"]
    /\ UNCHANGED <<policies, key, auditLog, req, subjectID, minted, resp, fn>>

\* server.go:71-72
EvaluateStep(h) ==
    /\ pc[h] = "evaluate"
    /\ LET res == Evaluate(policies, subjectID[h], req[h].TargetService,
                           req[h].Scopes, req[h].TtlSeconds)
       IN  /\ result' = [result EXCEPT ![h] = <<res>>]
           /\ calls'  = [calls EXCEPT ![h] = Append(@,
                            Call("Evaluate", <<subjectID[h], req[h].TargetService,
                                               req[h].Scopes, req[h].TtlSeconds>>))]
           /\ pc' = [pc EXCEPT ![h] = IF ~res.Allowed THEN "auditDenied" ELSE "mint"]
    /\ UNCHANGED <<policies, key, auditLog, req, subjectID, minted, resp, fn>>

\* The denial event built without its DenialReason.
DeniedEvent_NoReason(h) ==
    [ZeroEvent EXCEPT
        !.Subject         = subjectID[h],
        !.Target          = req[h].TargetService,
        !.ScopesRequested = req[h].Scopes,
        !.Granted         = FALSE]

\* server.go:73-79; the arrow of the reason is written "->" here.
DeniedEvent(h) ==
    [ZeroEvent EXCEPT
        !.Subject         = subjectID[h],
        !.Target          = req[h].TargetService,
        !.ScopesRequested = req[h].Scopes,
        !.Granted         = FALSE,
        !.DenialReason    = "no policy permits " \o subjectID[h] \o " -> "
                              \o req[h].TargetService]

\* Exchange returning PermissionDenied without the call of LogExchange.
AuditDenied_Skipped(h) ==
    /\ pc[h] = "auditDenied"
    /\ pc' = [pc EXCEPT ![h] = "respondDenied"]
    /\ UNCHANGED <<policies, key, auditLog, req, subjectID, result, minted, resp, calls, fn>>

AuditDenied(h) ==
    /\ pc[h] = "auditDenied"
    /\ auditLog' = Append(auditLog, LogExchange(DeniedEvent(h)))
    /\ calls'    = [calls EXCEPT ![h] = Append(@, Call("LogExchange", <<DeniedEvent(h)>>))]
    /\ pc'       = [pc EXCEPT ![h] = "respondDenied"]
    /\ UNCHANGED <<policies, key, req, subjectID, result, minted, resp, fn>>

\* The denial returned with codes.Internal.
RespondDenied_AsInternal(h) ==
    /\ pc[h] = "respondDenied"
    /\ ReturnError(h, "Internal",
                   "no policy permits " \o subjectID[h] \o " to access "
                     \o req[h].TargetService)
    /\ UNCHANGED <<policies, key, auditLog, req, subjectID, result, minted, calls, fn>>

\* The denial worded differently when a rule exists for the pair.
RespondDenied_RevealsRule(h) ==
    /\ pc[h] = "respondDenied"
    /\ ReturnError(h, "PermissionDenied",
                   IF \E i \in 1 .. Len(policies) :
                         /\ policies[i].Subject = subjectID[h]
                         /\ policies[i].Target = req[h].TargetService
                   THEN "policy grants none of the scopes to " \o subjectID[h]
                          \o " on " \o req[h].TargetService
                   ELSE "no policy permits " \o subjectID[h] \o " to access "
                          \o req[h].TargetService)
    /\ UNCHANGED <<policies, key, auditLog, req, subjectID, result, minted, calls, fn>>

\* server.go:80
RespondDenied(h) ==
    /\ pc[h] = "respondDenied"
    /\ ReturnError(h, "PermissionDenied",
                   "no policy permits " \o subjectID[h] \o " to access "
                     \o req[h].TargetService)
    /\ UNCHANGED <<policies, key, auditLog, req, subjectID, result, minted, calls, fn>>

\* Exchange calling Mint a second time when the first call fails.
MintStep_Retry(h) ==
    /\ pc[h] = "mint"
    /\ \E jti \in TokenIDs, now \in Times :
         LET m == Mint(key, subjectID[h], req[h].TargetService,
                       result[h][1].GrantedScopes, result[h][1].GrantedTTL, jti, now)
         IN  IF ~m.ok
             THEN IF \E i \in 1 .. Len(calls[h]) : calls[h][i].op = "Mint"
                  THEN /\ ReturnError(h, "Internal", "mint token: " \o m.err)
                       /\ UNCHANGED minted
                  ELSE UNCHANGED <<minted, resp, pc>>
             ELSE /\ minted' = [minted EXCEPT ![h] = <<m>>]
                  /\ pc' = [pc EXCEPT ![h] = "auditGranted"]
                  /\ UNCHANGED resp
    /\ calls' = [calls EXCEPT ![h] = Append(@,
                    Call("Mint", <<subjectID[h], req[h].TargetService,
                                   result[h][1].GrantedScopes, result[h][1].GrantedTTL>>))]
    /\ UNCHANGED <<policies, key, auditLog, req, subjectID, result, fn>>

\* server.go:83-86
MintStep(h) ==
    /\ pc[h] = "mint"
    /\ \E jti \in TokenIDs, now \in Times :
         LET m == Mint(key, subjectID[h], req[h].TargetService,
                       result[h][1].GrantedScopes, result[h][1].GrantedTTL, jti, now)
         IN  IF ~m.ok
             THEN /\ ReturnError(h, "Internal", "mint token: " \o m.err)
                  /\ UNCHANGED minted
             ELSE /\ minted' = [minted EXCEPT ![h] = <<m>>]
                  /\ pc' = [pc EXCEPT ![h] = "auditGranted"]
                  /\ UNCHANGED resp
    /\ calls' = [calls EXCEPT ![h] = Append(@,
                    Call("Mint", <<subjectID[h], req[h].TargetService,
                                   result[h][1].GrantedScopes, result[h][1].GrantedTTL>>))]
    /\ UNCHANGED <<policies, key, auditLog, req, subjectID, result, fn>>

\* The success event built with req.Scopes for ScopesGranted.
GrantedEvent_RequestedScopes(h) ==
    [ZeroEvent EXCEPT
        !.Subject         = subjectID[h],
        !.Target          = req[h].TargetService,
        !.ScopesRequested = req[h].Scopes,
        !.ScopesGranted   = req[h].Scopes,
        !.Granted         = TRUE,
        !.TTL             = result[h][1].GrantedTTL,
        !.TokenID         = minted[h][1].TokenID]

\* server.go:88-96
GrantedEvent(h) ==
    [ZeroEvent EXCEPT
        !.Subject         = subjectID[h],
        !.Target          = req[h].TargetService,
        !.ScopesRequested = req[h].Scopes,
        !.ScopesGranted   = result[h][1].GrantedScopes,
        !.Granted         = TRUE,
        !.TTL             = result[h][1].GrantedTTL,
        !.TokenID         = minted[h][1].TokenID]

AuditGranted(h) ==
    /\ pc[h] = "auditGranted"
    /\ auditLog' = Append(auditLog, LogExchange(GrantedEvent(h)))
    /\ calls'    = [calls EXCEPT ![h] = Append(@, Call("LogExchange", <<GrantedEvent(h)>>))]
    /\ pc'       = [pc EXCEPT ![h] = "respondOK"]
    /\ UNCHANGED <<policies, key, req, subjectID, result, minted, resp, fn>>

\* server.go:98-103
RespondOK(h) ==
    /\ pc[h] = "respondOK"
    /\ resp' = [resp EXCEPT ![h] =
                  [code |-> "OK", msg |-> "",
                   body |-> << [Token         |-> minted[h][1].Token,
                                ExpiresAt     |-> Unix(minted[h][1].ExpiresAt),
                                GrantedScopes |-> result[h][1].GrantedScopes,
                                TokenId       |-> minted[h][1].TokenID] >>]]
    /\ pc' = [pc EXCEPT ![h] = "done"]
    /\ UNCHANGED <<policies, key, auditLog, req, subjectID, result, minted, calls, fn>>

\* One step of the invocation h of Exchange.
Step(h) ==
    \/ ExtractStep(h)
    \/ ValidateStep(h)
    \/ EvaluateStep(h)
    \/ AuditDenied(h)
    \/ RespondDenied(h)
    \/ MintStep(h)
    \/ AuditGranted(h)
    \/ RespondOK(h)

\* ------------------------------------------------------- specifications
\* The server handling one request.
ReceiveOne(h) ==
    /\ \A g \in Handlers : pc[g] = "idle"
    /\ \E r \in Requests : Receive(h, r)

Next ==
    \/ \E h \in Handlers : ReceiveOne(h)
    \/ \E h \in Handlers : Step(h)

Spec == Init /\ [][Next]_vars

\* ------------------------------------------- requests handled concurrently
\* The gRPC server runs Exchange for every request on a goroutine of its own.
ctxOrder == TLSCtx(<< [URIs |-> <<uriOrder>>] >>)

ctxWh == TLSCtx(<< [URIs |-> <<uriHttps, uriWh>>] >>)

ConcRequests ==
    { [Ctx |-> ctxNoPeer, TargetService |-> "pay", Scopes |-> <<"a">>,      TtlSeconds |-> 30],
      [Ctx |-> ctxOrder,  TargetService |-> "pay", Scopes |-> <<>>,         TtlSeconds |-> 30],
      [Ctx |-> ctxOrder,  TargetService |-> "inv", Scopes |-> <<"a">>,      TtlSeconds |-> 30],
      [Ctx |-> ctxOrder,  TargetService |-> "pay", Scopes |-> <<"x", "a">>, TtlSeconds |-> 4000],
      [Ctx |-> ctxWh,     TargetService |-> "pay", Scopes |-> <<"a">>,      TtlSeconds |-> 30] }

ConcRules ==
    [Subject : { idOrder }, Target : { "pay" },
     AllowedScopes : { <<"a">> }, MaxTTL : { 60 }]

InitConc ==
    /\ policies \in { <<p>> : p \in ConcRules }
    /\ key \in Keys
    /\ HandlerInit

ReceiveConc(h) == \E r \in ConcRequests : Receive(h, r)

NextConc ==
    \/ \E h \in Handlers : ReceiveConc(h)
    \/ \E h \in Handlers : Step(h)

SpecConc == InitConc /\ [][NextConc]_vars

\* The server handling one request, any request, under the policies above.
\* The goroutine of a handler that can take a step is scheduled eventually.
FairOne == InitConc /\ [][Next]_vars /\ \A h \in Handlers : WF_vars(Step(h))

\* ------------------------------------------ scope strings of any content
\* A scope is any string of the request and of the YAML file: neither
\* Exchange nor LoadFile looks inside it.
ScopeStrings == { "a", "b", "", "a b" }

ScopeRequests ==
    [Ctx : { ctxNoPeer, ctxOrder }, TargetService : { "pay" },
     Scopes : SeqsUpTo(ScopeStrings, MaxScopes), TtlSeconds : { 30 }]

ScopeRules ==
    [Subject : { idOrder }, Target : { "pay" },
     AllowedScopes : { <<"a", "b">>, <<"a b", "", "a">> }, MaxTTL : { 60 }]

InitScope ==
    /\ policies \in { <<p>> : p \in ScopeRules }
    /\ key \in Keys
    /\ HandlerInit

ReceiveScope(h) ==
    /\ \A g \in Handlers : pc[g] = "idle"
    /\ \E r \in ScopeRequests : Receive(h, r)

NextScope ==
    \/ \E h \in Handlers : ReceiveScope(h)
    \/ \E h \in Handlers : Step(h)

SpecScope == InitScope /\ [][NextScope]_vars

\* ------------------------------------------------ Evaluate called directly
\* idAny is the subject of a rule written as a pattern; Evaluate compares it
\* like any other string.
idAny == "spiffe://td/*"

EvalRules ==
    [Subject : { idOrder, idAny }, Target : { "pay" },
     AllowedScopes : { <<"a">>, <<"b", "a">> }, MaxTTL : { -5, 0, 60, 7200 }]

EvalTTLValues == { -1, 0, 30, 60, 4000 }

InitEval ==
    /\ policies \in SeqsUpTo(EvalRules, MaxRules)
    /\ key = "P-256"
    /\ HandlerInit

\* l.Evaluate(subject, target, scopes, ttl), as TestEvaluate calls it.
EvaluateCall ==
    /\ fn = NoCall
    /\ \E subject \in { idOrder, idWh }, target \in { "pay", "inv" },
          scopes \in SeqsUpTo(ScopeNames, MaxScopes), ttl \in EvalTTLValues :
         fn' = [op   |-> "Evaluate",
                args |-> <<subject, target, scopes, ttl>>,
                out  |-> Evaluate(policies, subject, target, scopes, ttl)]
    /\ UNCHANGED <<policies, key, auditLog, pc, req, subjectID, result, minted, resp, calls>>

NextEval == EvaluateCall

SpecEval == InitEval /\ [][NextEval]_vars

\* --------------------------------------------- LogExchange called directly
\* Events with every field set, the ones LogExchange does not read included.
Events ==
    [Subject : { idOrder }, Target : { "pay" },
     ScopesRequested : SeqsUpTo(ScopeNames, MaxScopes),
     ScopesGranted : SeqsUpTo(ScopeNames, MaxScopes),
     Granted : BOOLEAN, TTL : { 0, 60 },
     TokenID : { "", "jti-1" }, DenialReason : { "", "no policy permits" }]

InitLog ==
    /\ policies = <<>>
    /\ key = "P-256"
    /\ HandlerInit

\* l.LogExchange(e), as TestLogExchange calls it: ev.Send() writes one line.
LogExchangeCall ==
    /\ fn = NoCall
    /\ \E e \in Events :
         /\ auditLog' = Append(auditLog, LogExchange(e))
         /\ fn' = [op |-> "LogExchange", args |-> <<e>>, out |-> LogExchange(e)]
    /\ UNCHANGED <<policies, key, pc, req, subjectID, result, minted, resp, calls>>

NextLog == LogExchangeCall

SpecLog == InitLog /\ [][NextLog]_vars

\* ---------------------------------------------------- Mint called directly
MintTTLValues == { -1, 0, 1, 300, 3600, 3601, 7200 }

InitMint ==
    /\ policies = <<>>
    /\ key \in Keys
    /\ HandlerInit

\* m.Mint(subject, target, scopes, ttl), as TestMint calls it.
MintCall ==
    /\ fn = NoCall
    /\ \E subject \in { idOrder }, target \in { "pay" },
          scopes \in SeqsUpTo(ScopeNames, MaxScopes), ttl \in MintTTLValues,
          jti \in TokenIDs, now \in Times :
         fn' = [op   |-> "Mint",
                args |-> <<subject, target, scopes, ttl>>,
                now  |-> now,
                out  |-> Mint(key, subject, target, scopes, ttl, jti, now)]
    /\ UNCHANGED <<policies, key, auditLog, pc, req, subjectID, result, minted, resp, calls>>

NextMint == MintCall

SpecMint == InitMint /\ [][NextMint]_vars

\* ----------------------------------------------- ExtractID called directly
\* The certificates a peer may present: any URI SANs, in any order.
Certificates ==
    [URIs : SeqsUpTo({ uriOrder, uriWh, uriNoHost, uriHttps }, MaxURIs)]

ctxNoTLS == [HasPeer |-> TRUE, AuthInfo |-> "other", State |-> [PeerCertificates |-> <<>>]]

ExtractContexts ==
    { ctxNoPeer, ctxNoTLS } \cup { TLSCtx(certs) : certs \in SeqsUpTo(Certificates, MaxCerts) }

InitExtract ==
    /\ policies = <<>>
    /\ key = "P-256"
    /\ HandlerInit

\* ExtractID(ctx), as TestExtractID calls it.
ExtractIDCall ==
    /\ fn = NoCall
    /\ \E ctx \in ExtractContexts :
         fn' = [op |-> "ExtractID", args |-> <<ctx>>, out |-> ExtractID(ctx)]
    /\ UNCHANGED <<policies, key, auditLog, pc, req, subjectID, result, minted, resp, calls>>

NextExtract == ExtractIDCall

SpecExtract == InitExtract /\ [][NextExtract]_vars

\* ---------------------------------------------------------------- claims
Range(s) == { s[i] : i \in 1 .. Len(s) }

CallsOf(h, op) == SelectSeq(calls[h], LAMBDA c : c.op = op)

RECURSIVE SumLogCalls(_)
SumLogCalls(n) ==
    IF n = 0 THEN 0 ELSE Len(CallsOf(n, "LogExchange")) + SumLogCalls(n - 1)

\* The index of the first rule for (subject, target) in load order, 0 if none.
MatchIndex(rules, subject, target) ==
    LET M == { i \in 1 .. Len(rules) :
                 rules[i].Subject = subject /\ rules[i].Target = target }
    IN  IF M = {} THEN 0 ELSE CHOOSE i \in M : \A j \in M : i <= j

RECURSIVE IsSubseq(_, _)
IsSubseq(s, t) ==
    IF Len(s) = 0 THEN TRUE
    ELSE IF Len(t) = 0 THEN FALSE
         ELSE IF Head(s) = Head(t) THEN IsSubseq(Tail(s), Tail(t))
              ELSE IsSubseq(s, Tail(t))

\* C1: a success response implies a loaded rule for the identity of the session
\* and the requested target, and every scope passed to Mint and returned in
\* granted_scopes is a requested scope and an allowed scope of that rule.
C1_SuccessWithinRule ==
    \A h \in Handlers :
        resp[h].code = "OK" =>
            /\ CallsOf(h, "Mint") # <<>>
            /\ \E i \in 1 .. Len(policies) :
                 /\ policies[i].Subject = ExtractID(req[h].Ctx).id
                 /\ policies[i].Target = req[h].TargetService
                 /\ LET both == Range(req[h].Scopes) \cap Range(policies[i].AllowedScopes)
                    IN  /\ \A k \in 1 .. Len(calls[h]) :
                              calls[h][k].op = "Mint" => Range(calls[h][k].args[3]) \subseteq both
                        /\ Range(resp[h].body[1].GrantedScopes) \subseteq both

C1_Witness ==
    \E h \in Handlers :
        /\ resp[h].code = "OK"
        /\ Len(req[h].Scopes) = 2
        /\ Len(resp[h].body[1].GrantedScopes) = 1

\* C2: when Evaluate allows, the granted scopes are a subsequence of the
\* requested scopes, in their order, and each is an allowed scope of the
\* first rule for (subject, target).
C2_GrantedIsSubsequence ==
    (fn.op = "Evaluate" /\ fn.out.Allowed) =>
        LET i == MatchIndex(policies, fn.args[1], fn.args[2])
        IN  /\ i # 0
            /\ IsSubseq(fn.out.GrantedScopes, fn.args[3])
            /\ Range(fn.out.GrantedScopes) \subseteq Range(policies[i].AllowedScopes)

C2_Witness ==
    /\ fn.op = "Evaluate"
    /\ fn.out.Allowed
    /\ fn.args[3] = <<"a", "b">>
    /\ fn.out.GrantedScopes = <<"a", "b">>

\* C3: every allowed decision of Evaluate has 0 < granted_ttl <= max_ttl of the
\* matched rule, whatever max_ttl the file gave the rule.
C3_GrantedTTLPositiveWithinMax ==
    (fn.op = "Evaluate" /\ fn.out.Allowed) =>
        /\ 0 < fn.out.GrantedTTL
        /\ fn.out.GrantedTTL <= policies[MatchIndex(policies, fn.args[1], fn.args[2])].MaxTTL

\* C4: the lifetime exp - iat of every credential Exchange returns is at most
\* the max_ttl of the rule that authorized it and at most 3600.
C4_LifetimeWithinRuleAndCap ==
    \A h \in Handlers :
        resp[h].code = "OK" =>
            LET c == resp[h].body[1].Token.claims
                i == MatchIndex(policies, subjectID[h], req[h].TargetService)
            IN  /\ c.exp - c.iat <= policies[i].MaxTTL
                /\ c.exp - c.iat <= maxTTLCap

\* C5: after a decision that is not allowed, Mint is never called and the
\* invocation holds and returns no token.
C5_DeniedNeverMints ==
    \A h \in Handlers :
        (result[h] # <<>> /\ ~result[h][1].Allowed) =>
            /\ CallsOf(h, "Mint") = <<>>
            /\ minted[h] = <<>>
            /\ resp[h].body = <<>>

C5_Witness ==
    \E h \in Handlers :
        /\ pc[h] = "done"
        /\ result[h] # <<>>
        /\ ~result[h][1].Allowed
        /\ resp[h].code = "PermissionDenied"

C7_FailureAfterEvaluateAudited ==
    \A h \in Handlers :
        (pc[h] = "done" /\ resp[h].code \in { "PermissionDenied", "Internal" })
            => CallsOf(h, "LogExchange") # <<>>

\* C8: an Exchange rejected as Unauthenticated or InvalidArgument has emitted
\* no audit event.
C8_EarlyRejectionNotAudited ==
    \A h \in Handlers :
        resp[h].code \in { "Unauthenticated", "InvalidArgument" } =>
            /\ CallsOf(h, "LogExchange") = <<>>
            /\ \A k \in 1 .. Len(auditLog) :
                  ~(/\ auditLog[k].subject = subjectID[h]
                    /\ auditLog[k].target = req[h].TargetService
                    /\ auditLog[k].scopes_requested = req[h].Scopes)

C8_Witness ==
    \E h \in Handlers :
        /\ pc[h] = "done"
        /\ resp[h].code = "InvalidArgument"
        /\ req[h].TargetService = ""
        /\ subjectID[h] = idOrder

\* C9: when the identity cannot be extracted from the session, Exchange returns
\* Unauthenticated whatever the request body holds, and neither Evaluate nor
\* Mint is called.
C9_ExtractionFailureIsUnauthenticated ==
    \A h \in Handlers :
        (pc[h] \notin { "idle", "extract" } /\ ExtractID(req[h].Ctx).err # NoErr) =>
            /\ pc[h] = "done"
            /\ resp[h].code = "Unauthenticated"
            /\ CallsOf(h, "Evaluate") = <<>>
            /\ CallsOf(h, "Mint") = <<>>

C9_Witness ==
    \E h \in Handlers :
        /\ pc[h] = "done"
        /\ resp[h].code = "Unauthenticated"
        /\ req[h].TargetService = ""
        /\ req[h].Scopes = <<>>

\* C10: with the identity extracted, an empty target_service or an empty scope
\* list makes Exchange return InvalidArgument without calling Evaluate or Mint.
C10_InvalidBodyNeverEvaluated ==
    \A h \in Handlers :
        (/\ pc[h] \notin { "idle", "extract", "validate" }
         /\ ExtractID(req[h].Ctx).err = NoErr
         /\ (req[h].TargetService = "" \/ Len(req[h].Scopes) = 0)) =>
            /\ pc[h] = "done"
            /\ resp[h].code = "InvalidArgument"
            /\ CallsOf(h, "Evaluate") = <<>>
            /\ CallsOf(h, "Mint") = <<>>

C10_Witness ==
    \E h \in Handlers :
        /\ pc[h] = "done"
        /\ resp[h].code = "InvalidArgument"
        /\ req[h].TargetService = "pay"
        /\ req[h].Scopes = <<>>
        /\ calls[h] = << Call("ExtractID", <<req[h].Ctx>>) >>

\* C11: a finished Exchange has the outcome fixed by the first failure on its
\* path: extraction error - Unauthenticated, empty target or scopes -
\* InvalidArgument, decision not allowed - PermissionDenied, Mint error -
\* Internal; with none of them it is a success whose response carries token,
\* expires_at, granted_scopes and token_id.  A failure carries no response.
C11_ExpectedCode(h) ==
    IF ExtractID(req[h].Ctx).err # NoErr THEN "Unauthenticated"
    ELSE IF req[h].TargetService = "" \/ Len(req[h].Scopes) = 0 THEN "InvalidArgument"
    ELSE IF ~result[h][1].Allowed THEN "PermissionDenied"
    ELSE IF minted[h] = <<>> THEN "Internal"
    ELSE "OK"

C11_OutcomeByFirstFailure ==
    \A h \in Handlers :
        pc[h] = "done" =>
            /\ resp[h].code = C11_ExpectedCode(h)
            /\ resp[h].code # "OK" => resp[h].body = <<>>
            /\ resp[h].code = "OK" =>
                 /\ Len(resp[h].body) = 1
                 /\ resp[h].body[1] =
                      [Token         |-> minted[h][1].Token,
                       ExpiresAt     |-> minted[h][1].Token.claims.exp,
                       GrantedScopes |-> result[h][1].GrantedScopes,
                       TokenId       |-> minted[h][1].Token.claims.jti]
            /\ (resp[h].code = "Internal") = (CallsOf(h, "Mint") # <<>> /\ ~SignOK(key))

C11_Witness ==
    \E h \in Handlers :
        /\ pc[h] = "done"
        /\ resp[h].code = "Internal"
        /\ result[h][1].Allowed

\* C12: a PermissionDenied response comes after exactly one audit event of the
\* request, with granted=false, the extracted subject, the requested target
\* and scopes, a non-empty denial_reason and no token_id.
C12_DenialAuditedOnce ==
    \A h \in Handlers :
        resp[h].code = "PermissionDenied" =>
            /\ Len(CallsOf(h, "LogExchange")) = 1
            /\ \E k \in 1 .. Len(auditLog) :
                 /\ auditLog[k] = LogExchange(CallsOf(h, "LogExchange")[1].args[1])
                 /\ auditLog[k].granted = FALSE
                 /\ auditLog[k].subject = ExtractID(req[h].Ctx).id
                 /\ auditLog[k].target = req[h].TargetService
                 /\ auditLog[k].scopes_requested = req[h].Scopes
                 /\ "denial_reason" \in DOMAIN auditLog[k]
                 /\ auditLog[k].denial_reason # ""
                 /\ "token_id" \notin DOMAIN auditLog[k]

C12_Witness ==
    \E h \in Handlers :
        /\ resp[h].code = "PermissionDenied"
        /\ Len(auditLog) = 1
        /\ auditLog[1].subject = idOrder
        /\ MatchIndex(policies, subjectID[h], req[h].TargetService) # 0

\* C13: on a success the calls are Mint, then LogExchange, then the response;
\* the audit event has granted=true, the token_id of the response and the
\* granted_scopes of the response.
C13_MintAuditRespond ==
    \A h \in Handlers :
        /\ pc[h] = "auditGranted" =>
              (CallsOf(h, "Mint") # <<>> /\ CallsOf(h, "LogExchange") = <<>>
                 /\ resp[h] = NoResponse)
        /\ pc[h] = "respondOK" =>
              (CallsOf(h, "LogExchange") # <<>> /\ resp[h] = NoResponse)
        /\ resp[h].code = "OK" =>
              /\ Len(calls[h]) = 4
              /\ calls[h][3].op = "Mint"
              /\ calls[h][4].op = "LogExchange"
              /\ \E k \in 1 .. Len(auditLog) :
                   /\ auditLog[k] = LogExchange(calls[h][4].args[1])
                   /\ auditLog[k].granted = TRUE
                   /\ auditLog[k].token_id = resp[h].body[1].TokenId
                   /\ auditLog[k].scopes_granted = resp[h].body[1].GrantedScopes

C13_Witness ==
    \E h \in Handlers :
        /\ resp[h].code = "OK"
        /\ Len(auditLog) = 1
        /\ auditLog[1].granted
        /\ auditLog[1].scopes_requested = <<"x", "a">>
        /\ auditLog[1].scopes_granted = <<"a">>

\* How often v occurs in s.
Count(s, v) == Cardinality({ i \in 1 .. Len(s) : s[i] = v })

\* C15: with several rules for the (subject, target) of the request the result
\* of Evaluate is the result on the first of them alone, also when the first
\* shares no scope with the request and a later one does.
C15_FirstMatchWins ==
    fn.op = "Evaluate" =>
        LET i == MatchIndex(policies, fn.args[1], fn.args[2])
        IN  i # 0 =>
              /\ fn.out = Evaluate(<<policies[i]>>, fn.args[1], fn.args[2], fn.args[3], fn.args[4])
              /\ fn.out.Allowed =
                   (Range(fn.args[3]) \cap Range(policies[i].AllowedScopes) # {})
              /\ fn.out.Allowed =>
                   /\ Range(fn.out.GrantedScopes) \subseteq Range(policies[i].AllowedScopes)
                   /\ fn.out.GrantedTTL \in { fn.args[4], policies[i].MaxTTL }

C15_Witness ==
    /\ fn.op = "Evaluate"
    /\ Len(policies) = 2
    /\ MatchIndex(policies, fn.args[1], fn.args[2]) = 1
    /\ policies[2].Subject = fn.args[1]
    /\ policies[2].Target = fn.args[2]
    /\ policies[1].AllowedScopes = <<"a">>
    /\ policies[2].AllowedScopes = <<"b", "a">>
    /\ fn.args[3] = <<"b">>
    /\ ~fn.out.Allowed

\* C16: Evaluate allows exactly when a rule has the subject and the target of
\* the request as equal strings and the first such rule allows one of the
\* requested scopes; without such a rule it denies, whatever scopes and TTL.
C16_AllowedIffFirstMatchShares ==
    fn.op = "Evaluate" =>
        LET M == { i \in 1 .. Len(policies) :
                     policies[i].Subject = fn.args[1] /\ policies[i].Target = fn.args[2] }
        IN  /\ M = {} => fn.out = Denied
            /\ fn.out.Allowed =
                 (/\ M # {}
                  /\ \E i \in M :
                       /\ \A j \in M : i <= j
                       /\ \E v \in Range(fn.args[3]) : v \in Range(policies[i].AllowedScopes))

C16_Witness ==
    /\ fn.op = "Evaluate"
    /\ Len(policies) = 1
    /\ policies[1].Subject = idAny
    /\ policies[1].AllowedScopes = <<"a">>
    /\ fn.args = <<idOrder, "pay", <<"a">>, 30>>
    /\ fn.out = Denied

\* C17: a request for a strict superset of the allowed scopes of the matched
\* rule is allowed, and the granted scopes of an allowed request are the
\* requested scopes that are allowed, every occurrence, in request order.
C17_PartialGrant ==
    fn.op = "Evaluate" =>
        LET i == MatchIndex(policies, fn.args[1], fn.args[2])
        IN  i # 0 =>
              /\ (/\ Range(policies[i].AllowedScopes) \subseteq Range(fn.args[3])
                  /\ Range(policies[i].AllowedScopes) # Range(fn.args[3]))
                    => fn.out.Allowed
              /\ fn.out.Allowed =>
                    /\ IsSubseq(fn.out.GrantedScopes, fn.args[3])
                    /\ \A v \in ScopeNames :
                         Count(fn.out.GrantedScopes, v) =
                            IF v \in Range(policies[i].AllowedScopes)
                            THEN Count(fn.args[3], v) ELSE 0

C17_Witness ==
    /\ fn.op = "Evaluate"
    /\ MatchIndex(policies, fn.args[1], fn.args[2]) # 0
    /\ policies[MatchIndex(policies, fn.args[1], fn.args[2])].AllowedScopes = <<"a">>
    /\ fn.args[3] = <<"x", "a">>
    /\ fn.out.Allowed
    /\ fn.out.GrantedScopes = <<"a">>

\* C18: the granted TTL of an allowed decision is max_ttl of the matched rule
\* when the requested TTL is <= 0 or above max_ttl, and the requested TTL
\* otherwise.
C18_GrantedTTL ==
    (fn.op = "Evaluate" /\ fn.out.Allowed) =>
        LET maxTTL == policies[MatchIndex(policies, fn.args[1], fn.args[2])].MaxTTL
        IN  /\ (fn.args[4] <= 0 \/ fn.args[4] > maxTTL) => fn.out.GrantedTTL = maxTTL
            /\ (0 < fn.args[4] /\ fn.args[4] <= maxTTL) => fn.out.GrantedTTL = fn.args[4]

C18_Witness ==
    /\ fn.op = "Evaluate"
    /\ fn.out.Allowed
    /\ fn.args[4] = 0
    /\ fn.out.GrantedTTL = 60

\* C14: LogExchange writes one record per event; the record of a granted
\* event has scopes_granted, ttl and token_id and no denial_reason, that of a
\* denied event has denial_reason and none of the three, whatever the fields
\* it does not read hold.
C14_BaseFields == { "event", "subject", "target", "scopes_requested", "granted" }

C14_GrantOrDenialFields ==
    fn.op = "LogExchange" =>
        LET e == fn.args[1]
        IN  /\ auditLog = << fn.out >>
            /\ fn.out.subject = e.Subject
            /\ fn.out.target = e.Target
            /\ fn.out.scopes_requested = e.ScopesRequested
            /\ fn.out.granted = e.Granted
            /\ e.Granted =>
                 /\ DOMAIN fn.out = C14_BaseFields \cup { "scopes_granted", "ttl", "token_id" }
                 /\ fn.out.scopes_granted = e.ScopesGranted
                 /\ fn.out.ttl = e.TTL
                 /\ fn.out.token_id = e.TokenID
            /\ ~e.Granted =>
                 /\ DOMAIN fn.out = C14_BaseFields \cup { "denial_reason" }
                 /\ fn.out.denial_reason = e.DenialReason

C14_Witness ==
    /\ fn.op = "LogExchange"
    /\ ~fn.args[1].Granted
    /\ fn.args[1].TokenID = "jti-1"
    /\ fn.args[1].ScopesGranted = <<"a">>
    /\ fn.args[1].TTL = 60
    /\ Len(auditLog) = 1
    /\ "token_id" \notin DOMAIN auditLog[1]

\* C19: Mint gives the credential a lifetime of 3600 seconds when ttl_seconds
\* is <= 0 or above 3600 and of ttl_seconds otherwise; exp of the token and the
\* returned ExpiresAt are the issue time plus that lifetime.
C19_EffectiveTTL(ttl) == IF ttl <= 0 \/ ttl > 3600 THEN 3600 ELSE ttl

C19_MintLifetime ==
    (fn.op = "Mint" /\ fn.out.ok) =>
        LET c == fn.out.Token.claims
        IN  /\ c.iat = fn.now.sec
            /\ c.exp = c.iat + C19_EffectiveTTL(fn.args[4])
            /\ fn.out.ExpiresAt.sec = fn.now.sec + C19_EffectiveTTL(fn.args[4])
            /\ fn.out.ExpiresAt.nsec = fn.now.nsec

C19_Witness ==
    /\ fn.op = "Mint"
    /\ fn.out.ok
    /\ fn.args[4] = 7200
    /\ fn.out.Token.claims.exp - fn.out.Token.claims.iat = 3600

\* C21: a credential returned by Mint, verified and parsed with the public key
\* of the minter, yields iss, sub, aud, scope, jti, iat and exp equal to the
\* fixed issuer, the subject, the target, the scopes joined by spaces, the
\* returned token id, the issue time and the issue time plus the effective
\* TTL; the returned ExpiresAt, in Unix seconds, is the exp claim.
RECURSIVE C21_SpaceJoined(_)
C21_SpaceJoined(s) ==
    IF Len(s) = 0 THEN ""
    ELSE IF Len(s) = 1 THEN s[1]
         ELSE C21_SpaceJoined(SubSeq(s, 1, Len(s) - 1)) \o " " \o s[Len(s)]

C21_RoundTrip ==
    (fn.op = "Mint" /\ fn.out.ok) =>
        LET p == ParseClaims(PublicKey(key), fn.out.Token)
        IN  /\ p.ok
            /\ p.claims.iss = "svid-exchange"
            /\ p.claims.sub = fn.args[1]
            /\ p.claims.aud = <<fn.args[2]>>
            /\ p.claims.scope = C21_SpaceJoined(fn.args[3])
            /\ p.claims.jti = fn.out.TokenID
            /\ p.claims.iat = fn.now.sec
            /\ p.claims.exp = fn.now.sec + C19_EffectiveTTL(fn.args[4])
            /\ Unix(fn.out.ExpiresAt) = p.claims.exp

C21_Witness ==
    /\ fn.op = "Mint"
    /\ fn.out.ok
    /\ fn.args[3] = <<"a", "b">>
    /\ fn.args[4] = 300
    /\ fn.now.nsec = 999999999
    /\ ParseClaims(PublicKey(key), fn.out.Token).ok
    /\ ParseClaims(PublicKey(key), fn.out.Token).claims.scope = "a b"
    /\ ParseClaims(PublicKey(key), fn.out.Token).claims.jti = "jti-2"

\* C22: ExtractID fails with an error of its own for each of these conditions,
\* tested in this order: no peer info, a peer without TLS auth info, no peer
\* certificate, no spiffe URI SAN on the leaf, a spiffe URI SAN without a trust
\* domain; whenever it fails it returns no identity string.
C22_Sentinels == { ErrNoPeerInfo, ErrNoTLSInfo, ErrNoCerts, ErrNoSPIFFEID }

C22_SpiffeIndexes(uris) == { i \in 1 .. Len(uris) : uris[i].Scheme = "spiffe" }

C22_FirstSpiffe(uris) ==
    uris[CHOOSE i \in C22_SpiffeIndexes(uris) : \A j \in C22_SpiffeIndexes(uris) : i <= j]

C22_ErrorPerCondition ==
    (fn.op = "ExtractID") =>
        LET ctx   == fn.args[1]
            certs == ctx.State.PeerCertificates
        IN  /\ Cardinality(C22_Sentinels) = 4
            /\ fn.out.err # NoErr => fn.out.id = ""
            /\ IF ~ctx.HasPeer THEN fn.out.err = ErrNoPeerInfo
               ELSE IF ctx.AuthInfo # "TLSInfo" THEN fn.out.err = ErrNoTLSInfo
               ELSE IF Len(certs) = 0 THEN fn.out.err = ErrNoCerts
               ELSE IF C22_SpiffeIndexes(certs[1].URIs) = {}
                    THEN fn.out.err = ErrNoSPIFFEID
               ELSE IF C22_FirstSpiffe(certs[1].URIs).Host = ""
                    THEN fn.out.err \notin C22_Sentinels \cup { NoErr }
               ELSE fn.out.err = NoErr

C22_Witness ==
    /\ fn.op = "ExtractID"
    /\ fn.args[1] = TLSCtx(<< [URIs |-> <<uriHttps, uriNoHost>>] >>)
    /\ fn.out.id = ""
    /\ fn.out.err \notin C22_Sentinels \cup { NoErr }

\* C25: on a session with at least one peer certificate the extractor reads
\* the leaf certificate only, skips URI SANs of other schemes and decides on
\* the first spiffe URI SAN: it returns that URI when its trust domain is not
\* empty and fails otherwise, whatever spiffe URI SANs follow.
C25_FirstSpiffeDecides ==
    (/\ fn.op = "ExtractID"
     /\ fn.args[1].HasPeer
     /\ fn.args[1].AuthInfo = "TLSInfo"
     /\ Len(fn.args[1].State.PeerCertificates) >= 1) =>
        LET uris == fn.args[1].State.PeerCertificates[1].URIs
        IN  IF C22_SpiffeIndexes(uris) = {}
            THEN fn.out.id = "" /\ fn.out.err = ErrNoSPIFFEID
            ELSE LET u == C22_FirstSpiffe(uris)
                 IN  IF u.Host # ""
                     THEN /\ fn.out.err = NoErr
                          /\ fn.out.id = "spiffe://" \o u.Host \o u.Path
                     ELSE /\ fn.out.err # NoErr
                          /\ fn.out.id = ""

C25_Witness ==
    /\ fn.op = "ExtractID"
    /\ fn.args[1] = TLSCtx(<< [URIs |-> <<uriNoHost, uriOrder>>], [URIs |-> <<uriWh>>] >>)
    /\ fn.out.id = ""
    /\ fn.out.err # NoErr

\* C23: the subject given to the policy evaluation, put in the sub claim of
\* the credential and recorded in the audit event is the identity the
\* extractor returned for the session of the request; requests on the same
\* session with different bodies are processed under the same subject.
C23_SessionID(h) == ExtractID(req[h].Ctx).id

C23_SubjectsUsed(h) ==
    { c.args[1] : c \in { d \in Range(calls[h]) : d.op \in { "Evaluate", "Mint" } } }
    \cup { c.args[1].Subject : c \in { d \in Range(calls[h]) : d.op = "LogExchange" } }
    \cup { m.Token.claims.sub : m \in Range(minted[h]) }
    \cup { b.Token.claims.sub : b \in Range(resp[h].body) }

C23_SubjectIsSessionIdentity ==
    /\ \A h \in Handlers : C23_SubjectsUsed(h) \subseteq { C23_SessionID(h) }
    /\ \A h, g \in Handlers :
         req[h].Ctx = req[g].Ctx =>
            Cardinality(C23_SubjectsUsed(h) \cup C23_SubjectsUsed(g)) <= 1

C23_Witness ==
    /\ pc[1] = "done" /\ pc[2] = "done"
    /\ req[1].Ctx = req[2].Ctx
    /\ req[1].TargetService = "inv" /\ req[2].TargetService = "pay"
    /\ resp[1].code = "PermissionDenied" /\ resp[2].code = "OK"
    /\ resp[2].body[1].Token.claims.sub = idOrder
    /\ Len(auditLog) = 2
    /\ auditLog[1].subject = idOrder /\ auditLog[2].subject = idOrder
    /\ C23_SubjectsUsed(1) = { idOrder } /\ C23_SubjectsUsed(2) = { idOrder }

\* C26: every invocation of Exchange reaches one terminal response, which
\* never changes afterwards, and on the way calls the identity extractor, the
\* policy evaluator and the minter at most once each.
C26_AtMostOnce ==
    \A h \in Handlers :
        /\ Len(CallsOf(h, "ExtractID")) <= 1
        /\ Len(CallsOf(h, "Evaluate")) <= 1
        /\ Len(CallsOf(h, "Mint")) <= 1
        /\ (pc[h] = "done") <=> (resp[h].code # "none")

C26_ResponseIsFinal ==
    \A h \in Handlers :
        pc[h] = "done" => (pc'[h] = "done" /\ resp'[h] = resp[h] /\ calls'[h] = calls[h])

C26_OneTerminalResponse ==
    /\ \A h \in Handlers : (pc[h] = "extract") ~> (pc[h] = "done")
    /\ []C26_AtMostOnce
    /\ [][C26_ResponseIsFinal]_vars

C26_Witness ==
    /\ pc[1] = "done"
    /\ resp[1].code = "Internal"
    /\ Len(CallsOf(1, "ExtractID")) = 1
    /\ Len(CallsOf(1, "Evaluate")) = 1
    /\ Len(CallsOf(1, "Mint")) = 1
    /\ Len(calls[1]) = 3

\* C27: whatever the number of requests in progress and the interleaving of
\* their steps, the outcome of each request (status kind, granted scopes,
\* granted TTL) is the one it gets alone under the same policy, a request in
\* progress can always take its next step, and the loaded rules and the
\* signing key never change.
C27_Alone(r) ==
    LET e  == ExtractID(r.Ctx)
        ev == Evaluate(policies, e.id, r.TargetService, r.Scopes, r.TtlSeconds)
    IN  IF e.err # NoErr
        THEN [code |-> "Unauthenticated", scopes |-> <<>>, ttl |-> 0]
        ELSE IF r.TargetService = "" \/ Len(r.Scopes) = 0
             THEN [code |-> "InvalidArgument", scopes |-> <<>>, ttl |-> 0]
             ELSE IF ~ev.Allowed
                  THEN [code |-> "PermissionDenied", scopes |-> <<>>, ttl |-> 0]
                  ELSE IF ~SignOK(key)
                       THEN [code |-> "Internal", scopes |-> <<>>, ttl |-> 0]
                       ELSE [code   |-> "OK",
                             scopes |-> ev.GrantedScopes,
                             ttl    |-> ev.GrantedTTL]

C27_Outcome(h) ==
    IF resp[h].code = "OK"
    THEN [code   |-> "OK",
          scopes |-> resp[h].body[1].GrantedScopes,
          ttl    |-> result[h][1].GrantedTTL]
    ELSE [code |-> resp[h].code, scopes |-> <<>>, ttl |-> 0]

C27_SameAsAlone ==
    \A h \in Handlers :
        /\ pc[h] = "done" => C27_Outcome(h) = C27_Alone(req[h])
        /\ pc[h] \notin { "idle", "done" } => ENABLED Step(h)

C27_Isolation ==
    /\ []C27_SameAsAlone
    /\ [][policies' = policies /\ key' = key]_vars

C27_Witness ==
    /\ pc[1] = "done" /\ pc[2] = "done"
    /\ req[1].Ctx = ctxWh /\ req[2].Ctx = ctxOrder
    /\ resp[1].code = "PermissionDenied"
    /\ resp[2].code = "OK"
    /\ resp[2].body[1].GrantedScopes = <<"a">>
    /\ Len(CallsOf(2, "Evaluate")) = 1
    /\ Len(CallsOf(1, "LogExchange")) = 1
    /\ auditLog[1].granted
    /\ auditLog[2].subject = idWh

\* C24: when minting fails, the Internal error returned to the caller holds
\* no detail of the signing error, and the failure is recorded on the server
\* side.
C24_SigningError(h) ==
    Mint(key, subjectID[h], req[h].TargetService, result[h][1].GrantedScopes,
         result[h][1].GrantedTTL, "jti-1", [sec |-> 0, nsec |-> 0]).err

C24_Carries(msg, detail) ==
    \E prefix \in { "", "mint token: ", "internal error: " } : msg = prefix \o detail

C24_MintFailureOpaqueAndLogged ==
    \A h \in Handlers :
        (pc[h] = "done" /\ resp[h].code = "Internal") =>
            /\ ~C24_Carries(resp[h].msg, C24_SigningError(h))
            /\ \E i \in 1 .. Len(auditLog) :
                  /\ auditLog[i].subject = subjectID[h]
                  /\ auditLog[i].target = req[h].TargetService

\* C28: a denied caller gets the same status kind and the same message,
\* built from its identity and the target alone, whether no rule exists for
\* its (subject, target) pair or a rule exists and allows none of the
\* requested scopes.
C28_DenialResponse(subject, target) ==
    [code |-> "PermissionDenied",
     msg  |-> "no policy permits " \o subject \o " to access " \o target,
     body |-> <<>>]

C28_DenialsIndistinguishable ==
    \A h \in Handlers :
        (pc[h] = "done" /\ Len(result[h]) = 1 /\ ~result[h][1].Allowed) =>
            resp[h] = C28_DenialResponse(ExtractID(req[h].Ctx).id, req[h].TargetService)

C28_Witness ==
    /\ pc[1] = "done"
    /\ MatchIndex(policies, subjectID[1], req[1].TargetService) = 1
    /\ req[1].Scopes = <<"x", "b">>
    /\ policies[1].AllowedScopes = <<"a">>
    /\ resp[1] = C28_DenialResponse(idOrder, "pay")

\* C29: on every successful exchange the ttl of the audit event is the
\* lifetime of the issued credential, exp minus iat, also when the granted TTL
\* of the decision is above 3600 or not positive.
C29_AuditTTLIsLifetime ==
    \A h \in Handlers :
        \A i \in 1 .. Len(calls[h]) :
            (calls[h][i].op = "LogExchange" /\ calls[h][i].args[1].Granted) =>
                calls[h][i].args[1].TTL =
                    minted[h][1].Token.claims.exp - minted[h][1].Token.claims.iat

\* C30: for every credential Exchange issues, splitting the scope claim on
\* the space character gives exactly the granted scopes, each of them
\* requested and allowed by the rule, also when a scope is the empty string or
\* has a space in it.
C30_Words == { "a", "b", "" }

\* strings.Split(s, " "): the one non-empty list of strings without a space
\* that gives s back when joined by spaces.
C30_Split(s) ==
    CHOOSE ws \in UNION { [1 .. k -> C30_Words] : k \in 1 .. 2 * MaxScopes } :
        C21_SpaceJoined(ws) = s

C30_ScopeClaimSplitsToGranted ==
    \A h \in Handlers :
        Len(minted[h]) = 1 =>
            LET read == C30_Split(minted[h][1].Token.claims.scope)
            IN  /\ read = result[h][1].GrantedScopes
                /\ \A i \in 1 .. Len(read) :
                      /\ Contains(req[h].Scopes, read[i])
                      /\ Contains(policies[1].AllowedScopes, read[i])

====
